---- MODULE Spec2Model ----
(***************************************************************************)
(* Model of backend/app.py: the Flask /scan endpoint, the cross-thread     *)
(* scheduling of _perform_ble_scan_core on the long-lived BLE loop, the    *)
(* scan / connect / resolve / notify workflow and the frame reassembly     *)
(* done by the notification callback handle_frame.                         *)
(*                                                                         *)
(* Times are counted in units of 10 ms, so that every constant of the      *)
(* source is a whole number (0.05 s = 5, 15.0 s = 1500).                   *)
(* Optional values of the source (None / a value) are <<>> / <<v>>.        *)
(* Byte strings are sequences of numbers in 0..255.                        *)
(***************************************************************************)
EXTENDS Integers, Sequences, FiniteSets, TLC

\* ------------------------------------------------------------------ bounds
\* largest sequence index the peer puts into a frame header
MaxSeq == 2
\* largest total the peer declares in a frame header
MaxTotal == 3

\* ------------------------------------------------------- program constants
\* app.py:26-31, in units of 10 ms
SCAN_SECONDS == 500
CONNECT_TIMEOUT_S == 1000
NOTIFY_WAIT_TOTAL_S == 1500
NOTIFY_POLL_STEP_S == 5
\* app.py:143, the arguments of _wait_bluetooth_available
PROBE_TOTAL == 3000
PROBE_STEP == 200
\* app.py:67, the timeout of one discover of the probe
PROBE_DISCOVER == 10
\* app.py:305, the timeout handed to run_on_ble_loop
CALLER_TIMEOUT == 6000
\* app.py:111 and 138, the sort key of a record without signal strength
RSSI_ABSENT_KEY == -999
\* app.py:223 and 229, the size of the frame header
HEADER_LEN == 6

None == <<>>
Some(x) == <<x>>

\* ------------------------------------------------------------ byte helpers
\* data[a:b] of Python: clipped to the bytes that exist
Slice(data, a, b) ==
    LET hi == IF b > Len(data) THEN Len(data) ELSE b
    IN  IF a >= hi THEN <<>> ELSE SubSeq(data, a + 1, hi)

\* data[i] | (data[i+1] << 8) for two bytes (0-based index i)
U16(data, i) == data[i + 1] + data[i + 2] * 256

RECURSIVE HexOf(_)
\* bytes.hex(): two nibbles per byte, high nibble first
HexOf(bs) ==
    IF bs = <<>> THEN <<>>
    ELSE <<Head(bs) \div 16, Head(bs) % 16>> \o HexOf(Tail(bs))

\* needle in hay, for str (here: sequences of nibbles)
Contains(hay, needle) ==
    \E i \in 0..(Len(hay) - Len(needle)) :
        SubSeq(hay, i + 1, i + Len(needle)) = needle

RECURSIVE Utf8Valid(_)
\* does bytes.decode("utf-8") succeed
Utf8Valid(bs) ==
    IF bs = <<>> THEN TRUE
    ELSE LET b0 == Head(bs)
             cont(k) == /\ Len(bs) >= k
                        /\ \A j \in 2..k : bs[j] >= 128 /\ bs[j] <= 191
         IN  IF b0 <= 127 THEN Utf8Valid(Tail(bs))
             ELSE IF b0 >= 194 /\ b0 <= 223
                  THEN cont(2) /\ Utf8Valid(SubSeq(bs, 3, Len(bs)))
             ELSE IF b0 >= 224 /\ b0 <= 239
                  THEN /\ cont(3)
                       /\ (b0 = 224 => bs[2] >= 160)
                       /\ (b0 = 237 => bs[2] <= 159)
                       /\ Utf8Valid(SubSeq(bs, 4, Len(bs)))
             ELSE IF b0 >= 240 /\ b0 <= 244
                  THEN /\ cont(4)
                       /\ (b0 = 240 => bs[2] >= 144)
                       /\ (b0 = 244 => bs[2] <= 143)
                       /\ Utf8Valid(SubSeq(bs, 5, Len(bs)))
             ELSE FALSE

\* ------------------------------------------------------------ frame inputs
\* the wire layout of a notification frame, as the peer builds it
MkFrame(seq, total, ln, payload) ==
    <<seq % 256, seq \div 256, total % 256, total \div 256,
      ln % 256, ln \div 256>> \o payload

\* payload the peer sends for index seq: "AB", "CD", "EF", ...
PayloadOf(seq) == <<65 + 2 * seq, 66 + 2 * seq>>
\* a second payload for index 0, not valid UTF-8
AltPayload == <<255>>

Payloads(seq) == IF seq = 0 THEN {PayloadOf(0), AltPayload} ELSE {PayloadOf(seq)}

WellFormedFrames ==
    UNION { UNION { { MkFrame(s, n, Len(p), p) : p \in Payloads(s) }
                    : n \in 0..MaxTotal }
            : s \in 0..MaxSeq }

\* frames shorter than the header
RuntFrames == { <<>>, Slice(MkFrame(0, MaxTotal, 2, PayloadOf(0)), 0, 5) }

\* frames whose declared length exceeds the bytes after the header
OverlongFrames ==
    { MkFrame(s, MaxTotal, Len(PayloadOf(s)) + 1, PayloadOf(s)) : s \in 0..MaxSeq }

\* a frame that carries more bytes than its declared length
PaddedFrames == { MkFrame(1, MaxTotal, 0, PayloadOf(1)) }

MalformedFrames == RuntFrames \cup OverlongFrames

\* every frame handed to the reassembler on its own
AllFrames == WellFormedFrames \cup MalformedFrames \cup PaddedFrames

\* the frames the connected peer pushes during a workflow: the two largest
\* totals, every index, and one malformed frame of each kind
StreamFrames ==
    { f \in WellFormedFrames : U16(f, 2) >= MaxTotal - 1 }
    \cup { Slice(MkFrame(0, MaxTotal, 2, PayloadOf(0)), 0, 5),
           MkFrame(1, MaxTotal, Len(PayloadOf(1)) + 1, PayloadOf(1)) }

\* ------------------------------------------------------------- reassembly
\* dict assignment d[k] = v
DictPut(d, k, v) == [i \in (DOMAIN d) \cup {k} |-> IF i = k THEN v ELSE d[i]]

\* handle_frame without the declared-length check: the payload is whatever
\* bytes are present
handle_frame_no_length_check(r, data) ==
    IF Len(data) < HEADER_LEN
    THEN [chunks |-> r.chunks, total_frames |-> r.total_frames, raised |-> TRUE]
    ELSE [chunks |-> DictPut(r.chunks, U16(data, 0),
                             Slice(data, HEADER_LEN, HEADER_LEN + U16(data, 4))),
          total_frames |-> Some(U16(data, 2)),
          raised |-> FALSE]

\* handle_frame storing each payload under its arrival position instead of
\* its sequence index
handle_frame_arrival_order(r, data) ==
    IF Len(data) < HEADER_LEN \/ HEADER_LEN + U16(data, 4) > Len(data)
    THEN [chunks |-> r.chunks, total_frames |-> r.total_frames, raised |-> TRUE]
    ELSE [chunks |-> DictPut(r.chunks, Cardinality(DOMAIN r.chunks),
                             Slice(data, HEADER_LEN, HEADER_LEN + U16(data, 4))),
          total_frames |-> Some(U16(data, 2)),
          raised |-> FALSE]

\* the notification callback, on the closure state r = [chunks, total_frames];
\* raised: the callback ended in UnboundLocalError (info is not declared
\* nonlocal, so the two "skipping" branches raise at info += ...)
handle_frame(r, data) ==
    IF Len(data) < HEADER_LEN
    THEN [chunks |-> r.chunks, total_frames |-> r.total_frames, raised |-> TRUE]
    ELSE LET seq   == U16(data, 0)
             total == U16(data, 2)
             ln    == U16(data, 4)
         IN  IF HEADER_LEN + ln > Len(data)
             THEN [chunks |-> r.chunks, total_frames |-> r.total_frames,
                   raised |-> TRUE]
             ELSE [chunks |-> DictPut(r.chunks, seq,
                                      Slice(data, HEADER_LEN, HEADER_LEN + ln)),
                   total_frames |-> Some(total),
                   raised |-> FALSE]

\* the condition of the wait loop
StillWaiting(chunks, total_frames) ==
    \/ total_frames = None
    \/ Cardinality(DOMAIN chunks) < total_frames[1]

\* one line of the info text
Line(k, v) == [k |-> k, v |-> v]

RECURSIVE JoinFromSkipMissing(_, _, _, _)
\* the final join passing over an index that is not stored
JoinFromSkipMissing(chunks, i, total, acc) ==
    IF i >= total THEN [missing |-> None, data |-> acc]
    ELSE IF i \notin DOMAIN chunks
    THEN JoinFromSkipMissing(chunks, i + 1, total, acc)
    ELSE JoinFromSkipMissing(chunks, i + 1, total, acc \o chunks[i])

RECURSIVE JoinFrom(_, _, _, _)
\* the final join: for i in range(total): stop at the first missing index
JoinFrom(chunks, i, total, acc) ==
    IF i >= total THEN [missing |-> None, data |-> acc]
    ELSE IF i \notin DOMAIN chunks THEN [missing |-> Some(i), data |-> acc]
    ELSE JoinFrom(chunks, i + 1, total, acc \o chunks[i])

\* the lines appended to info without the branch for total_frames is None
ReassemblyInfoSilent(chunks, total_frames, resolved) ==
    IF total_frames # None /\ Cardinality(DOMAIN chunks) < total_frames[1]
    THEN << Line("incomplete", <<Cardinality(DOMAIN chunks), total_frames[1]>>) >>
    ELSE IF total_frames # None
    THEN LET j == JoinFrom(chunks, 0, total_frames[1], <<>>)
         IN  IF j.missing # None
             THEN << Line("missing_frame", j.missing),
                     Line("not_reassembled", <<>>) >>
             ELSE IF Utf8Valid(j.data)
             THEN << Line("value", j.data) >>
             ELSE << Line("value_hex", HexOf(j.data)) >>
    ELSE <<>>

\* the lines appended to info after the notifications were stopped
ReassemblyInfo(chunks, total_frames, resolved) ==
    IF total_frames = None /\ resolved
    THEN << Line("no_frames", <<>>) >>
    ELSE IF total_frames # None /\ Cardinality(DOMAIN chunks) < total_frames[1]
    THEN << Line("incomplete", <<Cardinality(DOMAIN chunks), total_frames[1]>>) >>
    ELSE IF total_frames # None
    THEN LET j == JoinFrom(chunks, 0, total_frames[1], <<>>)
         IN  IF j.missing # None
             THEN << Line("missing_frame", j.missing),
                     Line("not_reassembled", <<>>) >>
             ELSE IF Utf8Valid(j.data)
             THEN << Line("value", j.data) >>
             ELSE << Line("value_hex", HexOf(j.data)) >>
    ELSE <<>>

\* ------------------------------------------------------ advertisement filter
\* app.py:20-21
TARGET_TEXT == <<80, 65, 76, 77, 75, 73>>
TARGET_HEX == HexOf(TARGET_TEXT)

\* one observed advertisement: manufacturer_data is the dict in iteration
\* order, a sequence of <<mfg_id, bytes>>
Adv(address, rssi, mfg) == [address |-> address, rssi |-> rssi, manufacturer_data |-> mfg]

\* version 1, "PALMKI", rolling counter c (little-endian)
MarkerData(c) == <<1>> \o TARGET_TEXT \o <<c % 256, c \div 256>>
OtherData == <<1, 2, 3>>

\* bytes 05 04 14 c4 d4 b4 90: their hex text 050414c4d4b490 holds the hex
\* text of the marker from the second nibble on, their bytes do not hold
\* the marker bytes
StraddleData == <<5, 4, 20, 196, 212, 180, 144>>

\* the batches one scan window can observe: the whole batch is what one
\* discover returns on macOS; elsewhere the window is given the batch one
\* advertisement at a time and may end after any of them. The first
\* advertiser of the last batch carries the marker from half a byte on, so a
\* window that ends after it holds no byte-aligned marker
Batches ==
    { <<>>,
      << Adv("DD", Some(-20), << <<76, OtherData>> >>) >>,
      << Adv("AA", Some(-40), << <<76, StraddleData>> >>),
         Adv("BB", None,      << <<76, OtherData>>, <<77, MarkerData(6)>> >>),
         Adv("CC", Some(-30), << <<76, MarkerData(258)>> >>) >> }

RECURSIVE MatchesOfDataByteAligned(_, _)
\* the inner loop looking for the marker bytes in the bytes of the value
MatchesOfDataByteAligned(rec, items) ==
    IF items = <<>> THEN <<>>
    ELSE LET hex_data == HexOf(Head(items)[2])
             rest == MatchesOfDataByteAligned(rec, Tail(items))
         IN  IF Contains(Head(items)[2], TARGET_TEXT)
             THEN << [address |-> rec.address, rssi |-> rec.rssi,
                      manufacturer_data |-> hex_data] >> \o rest
             ELSE rest

RECURSIVE MatchesOfData(_, _)
\* the inner loop over manufacturer_data.items() for one advertisement
MatchesOfData(rec, items) ==
    IF items = <<>> THEN <<>>
    ELSE LET hex_data == HexOf(Head(items)[2])
             rest == MatchesOfData(rec, Tail(items))
         IN  IF Contains(hex_data, TARGET_HEX)
             THEN << [address |-> rec.address, rssi |-> rec.rssi,
                      manufacturer_data |-> hex_data] >> \o rest
             ELSE rest

RECURSIVE MatchesOf(_)
\* the matches list, in observation order
MatchesOf(batch) ==
    IF batch = <<>> THEN <<>>
    ELSE MatchesOfData(Head(batch), Head(batch).manufacturer_data)
         \o MatchesOf(Tail(batch))

\* the sort key lambda
RssiKey(d) == IF d.rssi # None THEN d.rssi[1] ELSE RSSI_ABSENT_KEY

\* sorted(matches, key=..., reverse=True)[0]: the sort is stable, also when
\* reversed, so the first of the records with the greatest key
_scan_with_manufacturer_filter(batch) ==
    LET matches == MatchesOf(batch)
    IN  IF matches = <<>> THEN None
        ELSE LET best == CHOOSE i \in 1..Len(matches) :
                            /\ \A j \in 1..Len(matches) :
                                  RssiKey(matches[j]) <= RssiKey(matches[i])
                            /\ \A j \in 1..(i - 1) :
                                  RssiKey(matches[j]) < RssiKey(matches[i])
             IN  Some(matches[best])

\* nibbles back to bytes: bytes.fromhex
RECURSIVE FromHex(_)
FromHex(h) ==
    IF Len(h) < 2 THEN <<>>
    ELSE <<h[1] * 16 + h[2]>> \o FromHex(SubSeq(h, 3, Len(h)))

RECURSIVE DecodeIgnore(_)
\* bytes.decode('utf-8', errors='ignore'): the bytes of the characters kept
DecodeIgnore(bs) ==
    IF bs = <<>> THEN <<>>
    ELSE LET k == IF Head(bs) <= 127 THEN 1
                  ELSE IF Head(bs) <= 223 THEN 2
                  ELSE IF Head(bs) <= 239 THEN 3 ELSE 4
         IN  IF Len(bs) >= k /\ Utf8Valid(SubSeq(bs, 1, k))
             THEN SubSeq(bs, 1, k) \o DecodeIgnore(SubSeq(bs, k + 1, Len(bs)))
             ELSE DecodeIgnore(Tail(bs))

\* int.from_bytes(bs, byteorder='little')
RECURSIVE FromLE(_)
FromLE(bs) == IF bs = <<>> THEN 0 ELSE Head(bs) + 256 * FromLE(Tail(bs))

\* the info lines written once a target is selected
TargetInfo(target) ==
    LET mfg_bytes == FromHex(target.manufacturer_data)
    IN  << Line("device_address", target.address),
           Line("manufacturer_data", target.manufacturer_data),
           Line("manufacturer_ascii",
                [version |-> mfg_bytes[1],
                 tag |-> DecodeIgnore(Slice(mfg_bytes, 1, 7)),
                 counter |-> FromLE(Slice(mfg_bytes, 7, 9))]) >>

\* ------------------------------------------------------ capability resolution
\* app.py:23-24, as character codes
SERVICE_UUID == <<101, 50, 97, 50, 98, 56, 101, 48, 45, 48, 98, 54, 99, 45, 52, 98, 54, 100, 45, 56, 56, 54, 56, 45, 99, 50, 98, 53, 51, 102, 54, 99, 56, 100, 55, 98>>
CHAR_UUID == <<99, 51, 98, 51, 99, 57, 102, 48, 45, 49, 99, 55, 100, 45, 52, 101, 55, 101, 45, 56, 97, 56, 98, 45, 57, 101, 48, 102, 49, 100, 48, 97, 50, 98, 51, 99>>

\* str.lower() and str.upper() on ASCII text
Lower(s) == [i \in 1..Len(s) |-> IF s[i] >= 65 /\ s[i] <= 90 THEN s[i] + 32 ELSE s[i]]
Upper(s) == [i \in 1..Len(s) |-> IF s[i] >= 97 /\ s[i] <= 122 THEN s[i] - 32 ELSE s[i]]

\* some other identifier: the battery service
OTHER_UUID == <<50, 97, 49, 57>>

Chr(uuid, handle, properties) == [uuid |-> uuid, handle |-> handle, properties |-> properties]
Svc(uuid, handle, characteristics) == [uuid |-> uuid, handle |-> handle, characteristics |-> characteristics]

\* the capability trees a session can expose
ServiceTrees ==
    { <<>>,
      << Svc(OTHER_UUID, 1, << Chr(CHAR_UUID, 2, {"notify"}) >>) >>,
      << Svc(SERVICE_UUID, 10, << Chr(CHAR_UUID, 11, {"read"}) >>) >>,
      << Svc(OTHER_UUID, 1, << Chr(OTHER_UUID, 2, {"read"}) >>),
         Svc(Upper(SERVICE_UUID), 10,
             << Chr(OTHER_UUID, 11, {"notify"}),
                Chr(CHAR_UUID, 12, {"read", "write"}),
                Chr(Upper(CHAR_UUID), 13, {"read", "notify"}),
                Chr(CHAR_UUID, 14, {"notify"}) >>),
         Svc(SERVICE_UUID, 20, << Chr(CHAR_UUID, 21, {"notify"}) >>) >> }

RECURSIVE ResolveCharsStopAtNoNotify(_, _)
\* the loop over service_obj.characteristics leaving the service at the
\* first characteristic of the target identifier, notify or not
ResolveCharsStopAtNoNotify(chars, r) ==
    IF chars = <<>> THEN r
    ELSE LET c == Head(chars)
         IN  IF Lower(c.uuid) = Lower(CHAR_UUID)
             THEN LET i1 == r.info \o << Line("found_characteristic", c.handle) >>
                  IN  IF "notify" \in c.properties
                      THEN [obj |-> Some(c), info |-> i1]
                      ELSE [obj |-> r.obj,
                            info |-> i1 \o << Line("no_notify", c.handle) >>]
             ELSE ResolveCharsStopAtNoNotify(Tail(chars), r)

RECURSIVE ResolveChars(_, _)
\* the loop over service_obj.characteristics: r = [obj, info]
ResolveChars(chars, r) ==
    IF chars = <<>> THEN r
    ELSE LET c == Head(chars)
         IN  IF Lower(c.uuid) = Lower(CHAR_UUID)
             THEN LET i1 == r.info \o << Line("found_characteristic", c.handle) >>
                  IN  IF "notify" \in c.properties
                      THEN [obj |-> Some(c), info |-> i1]
                      ELSE ResolveChars(Tail(chars),
                               [obj |-> r.obj,
                                info |-> i1 \o << Line("no_notify", c.handle) >>])
             ELSE ResolveChars(Tail(chars), r)

RECURSIVE ResolveServices(_, _)
\* the loop over client.services.services.items()
ResolveServices(services, r) ==
    IF services = <<>> THEN r
    ELSE LET s == Head(services)
         IN  IF Lower(s.uuid) = Lower(SERVICE_UUID)
             THEN LET r1 == ResolveChars(s.characteristics,
                               [obj |-> r.obj,
                                info |-> r.info \o << Line("found_service", s.handle) >>])
                  IN  IF r1.obj # None THEN r1
                      ELSE ResolveServices(Tail(services), r1)
             ELSE ResolveServices(Tail(services), r)

\* the discovery block: tree = None stands for client.services raising
DiscoverServices(tree, info) ==
    LET i0 == info \o << Line("discovering_services", <<>>) >>
    IN  IF tree = None
        THEN [obj |-> None, info |-> i0 \o << Line("discovery_error", <<>>) >>]
        ELSE LET r == ResolveServices(tree[1], [obj |-> None, info |-> i0])
             IN  IF r.obj = None
                 THEN [obj |-> None,
                       info |-> r.info \o << Line("characteristic_not_found", <<>>) >>]
                 ELSE r

\* ------------------------------------------------------------------- state
VARIABLES
    MAC,    \* platform.system().lower() == "darwin"
    peer,   \* the frames the connected peer pushes as notifications
    air,    \* the batches of advertisements a scan window can observe
    http,   \* per request: the Flask thread running scan_ble
    task,   \* per request: the _perform_ble_scan_core coroutine on the BLE loop
    seen,   \* reassembler on its own: the frames delivered so far, in order
    reasm,  \* reassembler on its own: the closure state [chunks, total_frames]
    out,    \* reassembler on its own: the info lines of the final join
    inp,    \* a function on its own: the input it is applied to; the timed
            \* run: the time on the clock of the caller
    res     \* a function on its own: None, or its result; the timed run:
            \* the stage the run is in and the time spent in it

harness == <<seen, reasm, out, inp, res>>
vars == <<MAC, peer, air, http, task, seen, reasm, out, inp, res>>

\* the requests of the two deployments that are analysed
OneRequest == {1}
TwoRequests == {1, 2}

Report(status, info) == [status |-> status, info |-> info]

\* a coroutine object that has not been scheduled
NewTask ==
    [ pc |-> "none",            \* the await the coroutine is suspended at
      remaining |-> 0,          \* local of _wait_bluetooth_available
      probes |-> 0,             \* probe attempts of the call that is running
                                \* or that returned False
      scanning |-> FALSE,       \* scanner.start() returned and scanner.stop()
                                \* has not: the scanner is running
      heard |-> <<>>,           \* the advertisements handed to
                                \* detection_callback so far
      observed |-> None,        \* the advertisements the scan window saw
      at_exit |-> None,         \* chunks and total_frames when the wait loop
                                \* was left
      target |-> None,
      status |-> "",
      info |-> <<>>,
      target_characteristic_obj |-> None,
      chunks |-> <<>>,
      total_frames |-> None,
      waited |-> 0,
      pending |-> None,         \* value of a return statement inside async with
      result |-> None,          \* the report the coroutine returned
      session_open |-> FALSE,   \* the client is connected and not yet closed
      notifying |-> FALSE,      \* start_notify done, not yet released
      cancel |-> FALSE,         \* fut.cancel() requested by the caller
      must_cancel |-> FALSE,    \* Task.cancel() has run on the loop: the
                                \* coroutine is resumed with CancelledError
      started |-> FALSE,        \* start_notify has returned successfully
      stop_called |-> FALSE,    \* stop_notify has been invoked
      loop_exit |-> "none" ]    \* why the wait loop was left

NewHttp == [st |-> "idle", response |-> None]

\* -------------------------------------------------- steps of the coroutine
\* return <report> outside the async with block
Return(t, rep) == [t EXCEPT !.pc = "done", !.result = Some(rep)]

\* _wait_bluetooth_available returned False: step 1 returns its report
ProbeGaveUp(t) ==
    Return([t EXCEPT !.remaining = 0],
           Report("Bluetooth is OFF", << Line("bluetooth_off", <<>>) >>))

\* the probe loop giving up while one step of remaining is left
ProbeStepOneShort(t, ok) ==
    IF ok THEN [t EXCEPT !.pc = "scan", !.remaining = 0, !.probes = 0]
    ELSE IF t.remaining <= PROBE_STEP
    THEN ProbeGaveUp([t EXCEPT !.probes = @ + 1])
    ELSE [t EXCEPT !.pc = "probe_sleep", !.probes = @ + 1]

\* the probe discover of one round of the while loop of
\* _wait_bluetooth_available returned (ok) or raised.  remaining is a local
\* of that function and is gone (0 here) once it has returned; the count of
\* the attempts is kept when it returned False and dropped when it returned
\* True
ProbeStep(t, ok) ==
    IF ok THEN [t EXCEPT !.pc = "scan", !.remaining = 0, !.probes = 0]
    ELSE IF t.remaining <= 0
    THEN ProbeGaveUp([t EXCEPT !.probes = @ + 1])
    ELSE [t EXCEPT !.pc = "probe_sleep", !.probes = @ + 1]

\* asyncio.sleep(step) returned after a probe that raised: remaining is
\* reduced and the while condition is evaluated
ProbeSleepStep(t) ==
    LET t1 == [t EXCEPT !.remaining = @ - PROBE_STEP]
    IN  IF t1.remaining >= 0 THEN [t1 EXCEPT !.pc = "probe"]
        ELSE ProbeGaveUp(t1)

\* the scan stage without its except clauses: the exception leaves the
\* coroutine
ScanRaisedEscapes(t) == [t EXCEPT !.pc = "raised"]

\* the handlers of the scan stage
ScanRaised(t) ==
    Return(t, Report("Bluetooth error", << Line("exception", <<>>) >>))

\* step 2 taking the first advertisement observed when the filter selected
\* none
ScanStepFirstSeen(t, scanned) ==
    IF scanned = None THEN ScanRaised(t)
    ELSE LET target == _scan_with_manufacturer_filter(scanned[1])
             first == [address |-> scanned[1][1].address,
                       rssi |-> scanned[1][1].rssi,
                       manufacturer_data |->
                          HexOf(scanned[1][1].manufacturer_data[1][2])]
         IN  IF target = None /\ scanned[1] = <<>>
             THEN Return([t EXCEPT !.observed = scanned],
                         Report("No BLE package found", <<>>))
             ELSE [t EXCEPT !.observed = scanned,
                            !.target = IF target = None THEN Some(first)
                                       ELSE target,
                            !.status = "creating GATT",
                            !.info = TargetInfo(IF target = None THEN first
                                                ELSE target[1]),
                            !.pc = "connect"]

\* step 2 and the text written once a target is selected; scanned = None
\* stands for the scan raising, otherwise it holds the observed batch
ScanStep(t, scanned) ==
    IF scanned = None THEN ScanRaised(t)
    ELSE LET target == _scan_with_manufacturer_filter(scanned[1])
         IN  IF target = None
             THEN Return([t EXCEPT !.observed = scanned],
                         Report("No BLE package found", <<>>))
             ELSE [t EXCEPT !.observed = scanned,
                            !.target = target,
                            !.status = "creating GATT",
                            !.info = TargetInfo(target[1]),
                            !.pc = "connect"]

\* the other platforms: scanner.start() returned or raised
ScanStartStep(t, ok) ==
    IF ok THEN [t EXCEPT !.scanning = TRUE, !.pc = "scan_window"]
    ELSE ScanRaised(t)

\* the other platforms: asyncio.sleep(SCAN_SECONDS) returned
ScanWakeStep(t) == [t EXCEPT !.pc = "scan_stop"]

\* the other platforms: scanner.stop() returned or raised, and the filter
\* over what detection_callback was given; held: a stop that raised has
\* left the scanner running.  The closure is gone once the function has
\* returned
ScanStopStep(t, ok, held) ==
    IF ok THEN ScanStep([t EXCEPT !.scanning = FALSE, !.heard = <<>>],
                        Some(t.heard))
    ELSE ScanRaised([t EXCEPT !.scanning = held])

\* the if/elif chain after the notifications and status = finished
AfterStop(t) ==
    [t EXCEPT !.info = @ \o ReassemblyInfo(t.chunks, t.total_frames,
                                           t.target_characteristic_obj # None),
              !.status = "finished_gatt_operations",
              !.pc = "aexit"]

\* the inner except Exception handler
NotifyError(t) ==
    [t EXCEPT !.info = @ \o << Line("notification_error", <<>>) >>,
              !.status = "notification_error_exception",
              !.pc = "aexit"]

\* the outer except handlers and the final return
ConnectionError(t, kind) ==
    LET st == IF kind = "bleak_error" THEN "bleak_error_during_connection"
              ELSE "general_error_during_connection"
        inf == t.info \o << Line(kind, <<>>) >>
    IN  Return([t EXCEPT !.status = st, !.info = inf, !.pending = None],
               Report(st, inf))

\* the wait loop is left: the same step of the coroutine invokes
\* client.stop_notify (line 254) and suspends on it.  waited is not read
\* after the loop, the model forgets its value here
LeaveLoop(t, why) ==
    [t EXCEPT !.info = @ \o << Line("stopping", <<>>) >>,
              !.pc = "stop_notify",
              !.stop_called = TRUE,
              !.waited = 0,
              !.loop_exit = why,
              !.at_exit = Some([chunks |-> t.chunks,
                                total_frames |-> t.total_frames])]

\* the while condition
LoopHead(t) ==
    IF StillWaiting(t.chunks, t.total_frames)
    THEN [t EXCEPT !.pc = "sleeping"]
    ELSE LeaveLoop(t, "complete")

\* asyncio.sleep returned inside the wait loop
WakeStep(t) ==
    LET t1 == [t EXCEPT !.waited = @ + NOTIFY_POLL_STEP_S]
    IN  IF t1.waited >= NOTIFY_WAIT_TOTAL_S
        THEN LeaveLoop(t1, "budget")
        ELSE LoopHead(t1)

\* the connection stage returning the status variable as it stands when the
\* client is not connected
ConnectStepStaleStatus(t, outcome, tree) ==
    IF outcome \in {"bleak_error", "error"} THEN ConnectionError(t, outcome)
    ELSE IF outcome = "not_connected"
    THEN [t EXCEPT !.pending = Some(Report(t.status, t.info)),
                   !.pc = "aexit"]
    ELSE LET i1 == t.info \o << Line("connected", t.target[1].address) >>
             d  == DiscoverServices(tree, i1)
             t1 == [t EXCEPT !.session_open = TRUE,
                             !.status = "receiving_gatt_notifications",
                             !.target_characteristic_obj = d.obj,
                             !.chunks = <<>>,
                             !.total_frames = None]
         IN  IF d.obj = None
             THEN AfterStop([t1 EXCEPT
                     !.info = d.info \o << Line("cannot_start", <<>>) >>,
                     !.status = "characteristic_resolve_failed_before_notify"])
             ELSE [t1 EXCEPT
                     !.info = d.info \o << Line("attempting_start", d.obj[1].handle) >>,
                     !.pc = "start_notify"]

\* BleakClient.__aenter__ returned or raised, and what follows up to the
\* next await
ConnectStep(t, outcome, tree) ==
    IF outcome \in {"bleak_error", "error"} THEN ConnectionError(t, outcome)
    ELSE IF outcome = "not_connected"
    THEN [t EXCEPT !.pending = Some(Report("Failed to connect to " \o t.target[1].address,
                                           t.info)),
                   !.pc = "aexit"]
    ELSE LET i1 == t.info \o << Line("connected", t.target[1].address) >>
             d  == DiscoverServices(tree, i1)
             t1 == [t EXCEPT !.session_open = TRUE,
                             !.status = "receiving_gatt_notifications",
                             !.target_characteristic_obj = d.obj,
                             !.chunks = <<>>,
                             !.total_frames = None]
         IN  IF d.obj = None
             THEN AfterStop([t1 EXCEPT
                     !.info = d.info \o << Line("cannot_start", <<>>) >>,
                     !.status = "characteristic_resolve_failed_before_notify"])
             ELSE [t1 EXCEPT
                     !.info = d.info \o << Line("attempting_start", d.obj[1].handle) >>,
                     !.pc = "start_notify"]

\* start_notify returned or raised
StartNotifyStep(t, ok) ==
    IF ok
    THEN LoopHead([t EXCEPT !.notifying = TRUE, !.started = TRUE, !.waited = 0])
    ELSE NotifyError(t)

\* stop_notify returned or raised
StopNotifyStep(t, ok) ==
    IF ok
    THEN AfterStop([t EXCEPT !.notifying = FALSE])
    ELSE NotifyError(t)

\* BleakClient.__aexit__ returned or raised, and the return that follows;
\* held: a close that raised has left the link up
AexitStep(t, outcome, held) ==
    IF outcome = "ok"
    THEN LET t1 == [t EXCEPT !.session_open = FALSE, !.notifying = FALSE]
         IN  IF t.pending # None THEN Return(t1, t.pending[1])
             ELSE Return(t1, Report(t.status, t.info))
    ELSE ConnectionError([t EXCEPT !.session_open = held /\ t.session_open,
                                   !.notifying = held /\ t.notifying], outcome)

\* CancelledError is thrown into the coroutine at the await it is
\* suspended at: no except Exception clause catches it, no finally clause
\* stops the scanner, and inside the async with block __aexit__ is awaited
\* next.  The locals of the wait loop are not read again
CancelStep(t) ==
    IF t.pc \in {"start_notify", "sleeping", "stop_notify"}
    THEN [t EXCEPT !.pc = "aexit_cancel", !.waited = 0]
    ELSE [t EXCEPT !.pc = "cancelled"]

\* __aexit__ awaited while CancelledError unwinds the async with block: it
\* returned and CancelledError leaves the coroutine, or it raised and its
\* exception, which replaces CancelledError, is caught by the outer
\* handlers: the coroutine returns a report
AexitCancelledStep(t, outcome, held) ==
    IF outcome = "ok"
    THEN [t EXCEPT !.session_open = FALSE, !.notifying = FALSE,
                   !.pc = "cancelled"]
    ELSE ConnectionError([t EXCEPT !.session_open = held /\ t.session_open,
                                   !.notifying = held /\ t.notifying], outcome)

\* the awaits of the coroutine
Awaiting == {"probe", "probe_sleep", "scan", "scan_window", "scan_stop",
             "connect", "start_notify", "sleeping", "stop_notify", "aexit"}

\* ---------------------------------------------------------------- actions
Upd(w, t) == task' = [task EXCEPT ![w] = t]

\* the coroutine is suspended at pc and the loop resumes it normally: no
\* Task.cancel() has run on the loop yet
Resumable(w, pc) == task[w].pc = pc /\ ~task[w].must_cancel

\* one step of the coroutine, from its resumption to its next await or its
\* return.  fut.cancel() of the caller queues Task.cancel() on the loop
\* with call_soon_threadsafe: a step that was running or already queued goes
\* first, and Task.cancel() has run before the coroutine is resumed again.
\* The counter of the wait loop is not read again then
Resume(w, t) ==
    Upd(w, IF task[w].cancel /\ t.pc \in Awaiting
           THEN [t EXCEPT !.must_cancel = TRUE, !.waited = 0]
           ELSE t)

\* scan_ble calls run_on_ble_loop: the coroutine is handed to the BLE loop
Submit(w) ==
    /\ http[w].st = "idle"
    /\ http' = [http EXCEPT ![w].st = "waiting"]
    /\ Upd(w, [task[w] EXCEPT !.pc = "scheduled"])
    /\ UNCHANGED <<MAC, peer, air, harness>>

\* the loop starts the coroutine: the first step of the Task is queued
\* before any Task.cancel(), and it runs up to the first await, the probe
\* discover on macOS and scanner.start() elsewhere
BeginStep(t) ==
    IF MAC THEN [t EXCEPT !.pc = "probe", !.remaining = PROBE_TOTAL]
    ELSE [t EXCEPT !.pc = "scan"]

Begin(w) ==
    /\ task[w].pc = "scheduled"
    /\ Resume(w, BeginStep(task[w]))
    /\ UNCHANGED <<MAC, peer, air, http, harness>>

Probe(w) ==
    /\ Resumable(w, "probe")
    /\ \E ok \in BOOLEAN : Resume(w, ProbeStep(task[w], ok))
    /\ UNCHANGED <<MAC, peer, air, http, harness>>

ProbeSleep(w) ==
    /\ Resumable(w, "probe_sleep")
    /\ Resume(w, ProbeSleepStep(task[w]))
    /\ UNCHANGED <<MAC, peer, air, http, harness>>

\* macOS: the single discover of the scan returned a batch or raised;
\* elsewhere: scanner.start() returned or raised
Scan(w) ==
    /\ Resumable(w, "scan")
    /\ IF MAC
       THEN \E scanned \in {None} \cup {Some(b) : b \in air} :
               Resume(w, ScanStep(task[w], scanned))
       ELSE \E ok \in BOOLEAN : Resume(w, ScanStartStep(task[w], ok))
    /\ UNCHANGED <<MAC, peer, air, http, harness>>

\* the scanner hands the next advertisement on the air to
\* detection_callback, from the moment scanner.start() is awaited and for
\* as long as the scanner runs
Detect(w) ==
    /\ task[w].scanning \/ (~MAC /\ task[w].pc = "scan")
    /\ \E b \in air :
          /\ Len(task[w].heard) < Len(b)
          /\ SubSeq(b, 1, Len(task[w].heard)) = task[w].heard
          /\ Upd(w, [task[w] EXCEPT !.heard = SubSeq(b, 1, Len(@) + 1)])
    /\ UNCHANGED <<MAC, peer, air, http, harness>>

ScanWake(w) ==
    /\ Resumable(w, "scan_window")
    /\ Resume(w, ScanWakeStep(task[w]))
    /\ UNCHANGED <<MAC, peer, air, http, harness>>

ScanStop(w) ==
    /\ Resumable(w, "scan_stop")
    /\ \E ok \in BOOLEAN, held \in BOOLEAN :
          /\ (ok => ~held)
          /\ Resume(w, ScanStopStep(task[w], ok, held))
    /\ UNCHANGED <<MAC, peer, air, http, harness>>

Connect(w) ==
    /\ Resumable(w, "connect")
    /\ \E outcome \in {"bleak_error", "error", "not_connected", "connected"},
          tree \in {None} \cup {Some(s) : s \in ServiceTrees} :
          Resume(w, ConnectStep(task[w], outcome, tree))
    /\ UNCHANGED <<MAC, peer, air, http, harness>>

StartNotify(w) ==
    /\ Resumable(w, "start_notify")
    /\ \E ok \in BOOLEAN : Resume(w, StartNotifyStep(task[w], ok))
    /\ UNCHANGED <<MAC, peer, air, http, harness>>

\* the transport delivers one notification to handle_frame, from the moment
\* start_notify is awaited and for as long as the subscription is held; an
\* exception raised by the callback stays in the transport
Notify(w) ==
    /\ task[w].notifying \/ task[w].pc = "start_notify"
    /\ \E data \in peer :
          LET r == handle_frame([chunks |-> task[w].chunks,
                                 total_frames |-> task[w].total_frames], data)
          IN  Upd(w, [task[w] EXCEPT !.chunks = r.chunks,
                                     !.total_frames = r.total_frames])
    /\ UNCHANGED <<MAC, peer, air, http, harness>>

Wake(w) ==
    /\ Resumable(w, "sleeping")
    /\ Resume(w, WakeStep(task[w]))
    /\ UNCHANGED <<MAC, peer, air, http, harness>>

StopNotify(w) ==
    /\ Resumable(w, "stop_notify")
    /\ \E ok \in BOOLEAN : Resume(w, StopNotifyStep(task[w], ok))
    /\ UNCHANGED <<MAC, peer, air, http, harness>>

Aexit(w) ==
    /\ Resumable(w, "aexit")
    /\ \E outcome \in {"ok", "bleak_error", "error"}, held \in BOOLEAN :
          /\ (outcome = "ok" => ~held)
          /\ Resume(w, AexitStep(task[w], outcome, held))
    /\ UNCHANGED <<MAC, peer, air, http, harness>>

\* fut.result returned the report: jsonify(result)
Respond(w) ==
    /\ http[w].st = "waiting"
    /\ ~task[w].cancel
    /\ task[w].pc = "done"
    /\ http' = [http EXCEPT ![w] = [st |-> "done",
                                    response |-> Some(task[w].result[1].status)]]
    /\ UNCHANGED <<MAC, peer, air, task, harness>>

\* fut.result timed out, the coroutine still running or its report not yet
\* handed over by the done callback of the loop: fut.cancel()
Timeout(w) ==
    /\ http[w].st = "waiting"
    /\ ~task[w].cancel
    /\ task[w].pc \in Awaiting \cup {"scheduled", "done"}
    /\ Upd(w, [task[w] EXCEPT !.cancel = TRUE])
    /\ UNCHANGED <<MAC, peer, air, http, harness>>

\* FuturesTimeout reaches scan_ble: the Timeout response is produced, the
\* loop thread having run in between or not
TimeoutResponse(w) ==
    /\ http[w].st = "waiting"
    /\ task[w].cancel
    /\ http' = [http EXCEPT ![w] = [st |-> "done", response |-> Some("Timeout")]]
    /\ UNCHANGED <<MAC, peer, air, task, harness>>

\* Task.cancel() has run and the loop resumes the coroutine with
\* CancelledError at the await it is suspended at
Cancel(w) ==
    /\ task[w].cancel
    /\ task[w].pc \in Awaiting
    /\ Upd(w, CancelStep(task[w]))
    /\ UNCHANGED <<MAC, peer, air, http, harness>>

\* __aexit__ of the cancelled coroutine returned or raised
AexitCancelled(w) ==
    /\ task[w].pc = "aexit_cancel"
    /\ \E outcome \in {"ok", "bleak_error", "error"}, held \in BOOLEAN :
          /\ (outcome = "ok" => ~held)
          /\ Upd(w, AexitCancelledStep(task[w], outcome, held))
    /\ UNCHANGED <<MAC, peer, air, http, harness>>

\* ------------------------------------------- the reassembler on its own
\* bound on the number of frames delivered to the reassembler on its own
MaxArrivals == 3

NewReasm == [chunks |-> <<>>, total_frames |-> None]

\* one notification is handed to handle_frame
Deliver(data) ==
    /\ out = None
    /\ Len(seen) < MaxArrivals
    /\ seen' = Append(seen, data)
    /\ reasm' = LET r == handle_frame(reasm, data)
                IN  [chunks |-> r.chunks, total_frames |-> r.total_frames]
    /\ UNCHANGED <<MAC, peer, air, http, task, out, inp, res>>

\* the notifications are stopped and the chain after the wait loop runs
Finalize ==
    /\ out = None
    /\ out' = Some(ReassemblyInfo(reasm.chunks, reasm.total_frames, TRUE))
    /\ UNCHANGED <<MAC, peer, air, http, task, seen, reasm, inp, res>>

\* ---------------------------------------------------------- specifications
InitReassembler ==
    /\ seen = <<>>
    /\ reasm = NewReasm
    /\ out = None

InitHarness ==
    /\ InitReassembler
    /\ inp = None
    /\ res = None

InitRequests ==
    /\ http = [w \in TwoRequests |-> NewHttp]
    /\ task = [w \in TwoRequests |-> NewTask]

\* one /scan request, any batch of Batches on the air and a peer that pushes
\* StreamFrames
Init ==
    /\ MAC \in BOOLEAN
    /\ peer = StreamFrames
    /\ air = Batches
    /\ InitRequests
    /\ InitHarness

Next ==
    \/ \E w \in OneRequest : Submit(w)
    \/ \E w \in OneRequest : Begin(w)
    \/ \E w \in OneRequest : Probe(w)
    \/ \E w \in OneRequest : ProbeSleep(w)
    \/ \E w \in OneRequest : Scan(w)
    \/ \E w \in OneRequest : Detect(w)
    \/ \E w \in OneRequest : ScanWake(w)
    \/ \E w \in OneRequest : ScanStop(w)
    \/ \E w \in OneRequest : Connect(w)
    \/ \E w \in OneRequest : StartNotify(w)
    \/ \E w \in OneRequest : Notify(w)
    \/ \E w \in OneRequest : Wake(w)
    \/ \E w \in OneRequest : StopNotify(w)
    \/ \E w \in OneRequest : Aexit(w)
    \/ \E w \in OneRequest : Respond(w)
    \/ \E w \in OneRequest : Timeout(w)
    \/ \E w \in OneRequest : TimeoutResponse(w)
    \/ \E w \in OneRequest : Cancel(w)
    \/ \E w \in OneRequest : AexitCancelled(w)

Spec == Init /\ [][Next]_vars

\* two /scan requests served by the threaded Flask server on a platform
\* other than macOS (no availability probe is made there), with one marked
\* advertiser on the air and a peer whose notifications are too short to be
\* frames
InitServe ==
    /\ MAC = FALSE
    /\ peer = { <<>> }
    /\ air = { << Adv("AA", Some(-40), << <<76, MarkerData(5)>> >>) >> }
    /\ InitRequests
    /\ InitHarness

NextServe ==
    \/ \E w \in TwoRequests : Submit(w)
    \/ \E w \in TwoRequests : Begin(w)
    \/ \E w \in TwoRequests : Scan(w)
    \/ \E w \in TwoRequests : Detect(w)
    \/ \E w \in TwoRequests : ScanWake(w)
    \/ \E w \in TwoRequests : ScanStop(w)
    \/ \E w \in TwoRequests : Connect(w)
    \/ \E w \in TwoRequests : StartNotify(w)
    \/ \E w \in TwoRequests : Notify(w)
    \/ \E w \in TwoRequests : Wake(w)
    \/ \E w \in TwoRequests : StopNotify(w)
    \/ \E w \in TwoRequests : Aexit(w)
    \/ \E w \in TwoRequests : Respond(w)
    \/ \E w \in TwoRequests : Timeout(w)
    \/ \E w \in TwoRequests : TimeoutResponse(w)
    \/ \E w \in TwoRequests : Cancel(w)
    \/ \E w \in TwoRequests : AexitCancelled(w)

SpecServe == InitServe /\ [][NextServe]_vars

\* the reassembler on its own, fed any sequence of at most MaxArrivals frames
InitFrames ==
    /\ MAC = FALSE
    /\ peer = AllFrames
    /\ air = {}
    /\ InitRequests
    /\ InitHarness

NextFrames ==
    \/ \E data \in peer : Deliver(data)
    \/ Finalize

SpecFrames == InitFrames /\ [][NextFrames]_vars

\* ------------------------------------------- the selection on its own
\* bound on the number of advertisements in a batch handed to the selection
MaxBatch == 3

\* the signal strengths an advertisement can carry: none, ordinary values
\* and values at and below the sort key used for none
RssiValues == {None, Some(-30), Some(-40), Some(RSSI_ABSENT_KEY),
               Some(RSSI_ABSENT_KEY - 1)}

\* what the manufacturer-data value of an advertisement holds
DataKinds == {"marker", "other", "straddle"}

\* the i-th advertisement of a batch
AdvAt(i, rssi, kind) ==
    Adv(<<"peer", i>>, rssi,
        << <<76, IF kind = "marker" THEN MarkerData(i)
                 ELSE IF kind = "straddle" THEN StraddleData
                 ELSE OtherData>> >>)

\* the scan window observes one more advertisement
Observe(rssi, kind) ==
    /\ res = None
    /\ Len(inp) < MaxBatch
    /\ inp' = Append(inp, AdvAt(Len(inp) + 1, rssi, kind))
    /\ UNCHANGED <<MAC, peer, air, http, task, seen, reasm, out, res>>

\* the scan window ends: the function selects among what was observed
Select ==
    /\ res = None
    /\ res' = Some([matches |-> MatchesOf(inp),
                     selected |-> _scan_with_manufacturer_filter(inp)])
    /\ UNCHANGED <<MAC, peer, air, http, task, seen, reasm, out, inp>>

InitSelect ==
    /\ MAC \in BOOLEAN
    /\ peer = {}
    /\ air = {}
    /\ InitRequests
    /\ InitReassembler
    /\ inp = <<>>
    /\ res = None

NextSelect ==
    \/ \E rssi \in RssiValues, kind \in DataKinds : Observe(rssi, kind)
    \/ Select

SpecSelect == InitSelect /\ [][NextSelect]_vars

\* ------------------------------------------------- the run on the clock
\* One request with the time each await takes, in units of 10 ms. inp is the
\* time on the caller's clock since scan_ble called fut.result; res is the
\* position of the coroutine (stage, the countdown of the probe, the waited
\* of the wait loop), whether a wait that the code gives no budget has
\* taken time (late), and the answer of scan_ble once it has one.
\* Time passes in steps of the poll interval, which divides every time
\* constant of the program.
\* bound on the time a wait without a budget takes when it ends before
\* the caller gives up (one that lasts longer is pending when the timeout
\* passes)
MaxCall == 100

\* the times an await can take that lasts at most most
Durations(most) ==
    { NOTIFY_POLL_STEP_S * k : k \in 0..(most \div NOTIFY_POLL_STEP_S) }

\* the waits that are given no timeout and are no sleep: the loop getting
\* to the first step of the coroutine that run_coroutine_threadsafe queued,
\* the start and the stop of the scanner, start_notify, stop_notify, the
\* close of the session, and the hand-over of the returned report to
\* fut.result
WaitsWithoutBudget ==
    {"scheduled", "scan_start", "scan_stop", "start_notify", "stop_notify",
     "aexit", "returned"}

\* the longest the await of a stage can last: the timeout handed to the
\* call, or the length of the sleep; an await without a budget can last
\* until the caller gives up
Budget(stage) ==
    CASE stage = "probe"       -> PROBE_DISCOVER
      [] stage = "probe_sleep" -> PROBE_STEP
      [] stage = "scan"        -> SCAN_SECONDS
      [] stage = "scan_window" -> SCAN_SECONDS
      [] stage = "connect"     -> CONNECT_TIMEOUT_S
      [] stage = "sleeping"    -> NOTIFY_POLL_STEP_S
      [] stage \in WaitsWithoutBudget -> CALLER_TIMEOUT

Stage(stage, remaining) ==
    [stage |-> stage, remaining |-> remaining, waited |-> 0,
     late |-> FALSE, answer |-> None]

\* the await of the current stage ends after d, before the caller gives up,
\* and the coroutine goes on to the next await
Elapse(d, stage, remaining, waited) ==
    /\ res.answer = None
    /\ inp + d <= CALLER_TIMEOUT
    /\ inp' = inp + d
    /\ res' = [res EXCEPT !.stage = stage, !.remaining = remaining,
                          !.waited = waited,
                          !.late = @ \/ (res.stage \in WaitsWithoutBudget /\ d > 0)]
    /\ UNCHANGED <<MAC, peer, air, http, task, seen, reasm, out>>

\* the loop runs the first step of the coroutine d after fut.result was
\* called: up to the first discover of the probe on macOS, up to
\* scanner.start() elsewhere
TimedBegin(d) ==
    /\ res.stage = "scheduled"
    /\ d \in Durations(MaxCall)
    /\ IF MAC THEN Elapse(d, "probe", PROBE_TOTAL, 0)
              ELSE Elapse(d, "scan_start", 0, 0)

\* one discover(timeout=0.1) of the probe ends after d: it returned, or it
\* raised with nothing left of the countdown, or it raised and the sleep
\* follows
TimedProbe(d, ok) ==
    /\ res.stage = "probe"
    /\ d \in Durations(PROBE_DISCOVER)
    /\ Elapse(d, IF ok THEN "scan"
                 ELSE IF res.remaining <= 0 THEN "returned" ELSE "probe_sleep",
              res.remaining, 0)

\* the sleep between two probes, and the countdown
TimedProbeSleep ==
    /\ res.stage = "probe_sleep"
    /\ Elapse(PROBE_STEP,
              IF res.remaining - PROBE_STEP >= 0 THEN "probe" ELSE "returned",
              res.remaining - PROBE_STEP, 0)

\* the discover of the macOS scan ends after d within its timeout: with a
\* target, with no match, or raising into the Bluetooth error report
TimedScan(d, outcome) ==
    /\ res.stage = "scan"
    /\ d \in Durations(SCAN_SECONDS)
    /\ Elapse(d, IF outcome = "found" THEN "connect" ELSE "returned", 0, 0)

\* scanner.start() ends after d: the window opens, or it raised
TimedScanStart(d, ok) ==
    /\ res.stage = "scan_start"
    /\ d \in Durations(MaxCall)
    /\ Elapse(d, IF ok THEN "scan_window" ELSE "returned", 0, 0)

\* the sleep of the scan window
TimedScanWake ==
    /\ res.stage = "scan_window"
    /\ Elapse(SCAN_SECONDS, "scan_stop", 0, 0)

\* scanner.stop() ends after d: with a target, with no match, or raising
TimedScanStop(d, outcome) ==
    /\ res.stage = "scan_stop"
    /\ d \in Durations(MaxCall)
    /\ Elapse(d, IF outcome = "found" THEN "connect" ELSE "returned", 0, 0)

\* the entry of the session ends after d within the timeout handed to
\* BleakClient: it raised, or the session is open and the run skips the
\* notifications (not connected, discovery failed, characteristic not
\* resolved), or it goes on to start_notify
TimedConnect(d, outcome) ==
    /\ res.stage = "connect"
    /\ d \in Durations(CONNECT_TIMEOUT_S)
    /\ Elapse(d, CASE outcome = "raised" -> "returned"
                   [] outcome = "skip"   -> "aexit"
                   [] outcome = "notify" -> "start_notify", 0, 0)

\* start_notify ends after d: it raised, or the frames that arrived while
\* it was pending are all there are and the loop is not entered, or the
\* first poll follows
TimedStartNotify(d, outcome) ==
    /\ res.stage = "start_notify"
    /\ d \in Durations(MaxCall)
    /\ Elapse(d, CASE outcome = "raised"   -> "aexit"
                   [] outcome = "complete" -> "stop_notify"
                   [] outcome = "waiting"  -> "sleeping", 0, 0)

\* one poll of the wait loop: the sleep, the count, the break when the
\* budget is used up, and the test of the loop for the frames that arrived
TimedPoll(complete) ==
    /\ res.stage = "sleeping"
    /\ LET waited == res.waited + NOTIFY_POLL_STEP_S
       IN  IF waited >= NOTIFY_WAIT_TOTAL_S \/ complete
           THEN Elapse(NOTIFY_POLL_STEP_S, "stop_notify", 0, 0)
           ELSE Elapse(NOTIFY_POLL_STEP_S, "sleeping", 0, waited)

\* stop_notify ends after d, returning or raising into the inner except
TimedStopNotify(d) ==
    /\ res.stage = "stop_notify"
    /\ d \in Durations(MaxCall)
    /\ Elapse(d, "aexit", 0, 0)

\* the close of the session ends after d and the coroutine returns
TimedAexit(d) ==
    /\ res.stage = "aexit"
    /\ d \in Durations(MaxCall)
    /\ Elapse(d, "returned", 0, 0)

\* the report of the returned coroutine reaches fut.result after d and
\* scan_ble answers with it
TimedRespond(d) ==
    /\ res.stage = "returned"
    /\ d \in Durations(MaxCall)
    /\ res.answer = None
    /\ inp + d <= CALLER_TIMEOUT
    /\ inp' = inp + d
    /\ res' = [res EXCEPT !.late = @ \/ d > 0, !.answer = Some("report")]
    /\ UNCHANGED <<MAC, peer, air, http, task, seen, reasm, out>>

\* fut.result(timeout=60.0) gives up and scan_ble answers Timeout: the
\* await of the current stage is still pending when the timeout has passed,
\* which an await without a budget can be from any time on, and one with a
\* budget when its budget reaches the timeout; so can the first step of the
\* coroutine be, and the report of a coroutine that has returned is dropped
\* when it has not been handed over by then
TimedTimeout ==
    /\ res.answer = None
    /\ inp + Budget(res.stage) >= CALLER_TIMEOUT
    /\ inp' = CALLER_TIMEOUT
    /\ res' = [res EXCEPT !.late = @ \/ ( /\ res.stage \in WaitsWithoutBudget
                                          /\ inp < CALLER_TIMEOUT ),
                          !.answer = Some("Timeout")]
    /\ UNCHANGED <<MAC, peer, air, http, task, seen, reasm, out>>

InitTimed ==
    /\ MAC \in BOOLEAN
    /\ peer = {}
    /\ air = {}
    /\ InitRequests
    /\ InitReassembler
    /\ inp = 0
    /\ res = Stage("scheduled", 0)

NextTimed ==
    \/ \E d \in Durations(MaxCall) : TimedBegin(d)
    \/ \E d \in Durations(PROBE_DISCOVER), ok \in BOOLEAN : TimedProbe(d, ok)
    \/ TimedProbeSleep
    \/ \E d \in Durations(SCAN_SECONDS), outcome \in {"found", "none", "raised"} :
          TimedScan(d, outcome)
    \/ \E d \in Durations(MaxCall), ok \in BOOLEAN : TimedScanStart(d, ok)
    \/ TimedScanWake
    \/ \E d \in Durations(MaxCall), outcome \in {"found", "none", "raised"} :
          TimedScanStop(d, outcome)
    \/ \E d \in Durations(CONNECT_TIMEOUT_S), outcome \in {"raised", "skip", "notify"} :
          TimedConnect(d, outcome)
    \/ \E d \in Durations(MaxCall), outcome \in {"raised", "complete", "waiting"} :
          TimedStartNotify(d, outcome)
    \/ \E complete \in BOOLEAN : TimedPoll(complete)
    \/ \E d \in Durations(MaxCall) : TimedStopNotify(d)
    \/ \E d \in Durations(MaxCall) : TimedAexit(d)
    \/ \E d \in Durations(MaxCall) : TimedRespond(d)
    \/ TimedTimeout

SpecTimed == InitTimed /\ [][NextTimed]_vars

\* ------------------------------------------ the resolution on its own
\* bound on the number of services of a capability tree
MaxServices == 2

\* identifier and properties of the characteristics a service can hold
CharKinds ==
    { <<CHAR_UUID, {"read", "write"}>>,
      <<Upper(CHAR_UUID), {"read", "notify"}>>,
      <<OTHER_UUID, {"notify"}>> }

\* the lists of at most two characteristics
CharLists == UNION { [1..n -> CharKinds] : n \in 0..2 }

ServiceKinds == {SERVICE_UUID, Upper(SERVICE_UUID), OTHER_UUID}

\* service i of a tree has handle 10 i, its j-th characteristic 10 i + j
SvcAt(i, uuid, chars) ==
    Svc(uuid, 10 * i,
        [j \in 1..Len(chars) |-> Chr(chars[j][1], 10 * i + j, chars[j][2])])

\* the peer exposes one more service
Expose(uuid, chars) ==
    /\ res = None
    /\ Len(inp) < MaxServices
    /\ inp' = Append(inp, SvcAt(Len(inp) + 1, uuid, chars))
    /\ UNCHANGED <<MAC, peer, air, http, task, seen, reasm, out, res>>

\* the discovery block is applied to the tree the session exposes
Resolve ==
    /\ res = None
    /\ res' = Some(DiscoverServices(Some(inp), <<>>))
    /\ UNCHANGED <<MAC, peer, air, http, task, seen, reasm, out, inp>>

InitResolve ==
    /\ MAC = FALSE
    /\ peer = {}
    /\ air = {}
    /\ InitRequests
    /\ InitReassembler
    /\ inp = <<>>
    /\ res = None

NextResolve ==
    \/ \E uuid \in ServiceKinds, chars \in CharLists : Expose(uuid, chars)
    \/ Resolve

SpecResolve == InitResolve /\ [][NextResolve]_vars

\* ------------------------------------------------------------------ claims
\* a frame is well-formed: the header is present and the declared payload
\* length does not exceed the bytes after it
WellFormed(d) == Len(d) >= 6 /\ 6 + U16(d, 4) <= Len(d)
DeclaredSeq(d) == U16(d, 0)
DeclaredTotal(d) == U16(d, 2)
DeclaredPayload(d) == SubSeq(d, 7, 6 + U16(d, 4))

HasLine(info, k) == \E i \in 1..Len(info) : info[i].k = k

\* every index in [0, total) is a key of chunks
AllPresent(chunks, total) == \A i \in 0..(total - 1) : i \in DOMAIN chunks

FINISHED == "finished_gatt_operations"

\* the frame handed to the reassembler by the step that was just taken
Delivered == Len(seen') = Len(seen) + 1
LastFrame == seen'[Len(seen')]

\* C1: once the authoritative total is set, a well-formed frame declaring a
\* different total is dropped: total_frames and chunks are what they were
C1_ConflictingTotalDropped ==
    [][ ( /\ Delivered
          /\ WellFormed(LastFrame)
          /\ reasm.total_frames # None
          /\ DeclaredTotal(LastFrame) # reasm.total_frames[1] )
        => reasm' = reasm ]_vars

\* C2: whenever the wait loop is left before the budget is exhausted, every
\* index in [0, total_frames) is a key of chunks
C2_LoopExitNeedsAllIndices ==
    [][ \A w \in TwoRequests :
          ( task[w].loop_exit = "none" /\ task'[w].loop_exit = "complete" )
          => AllPresent(task'[w].chunks, task'[w].total_frames[1]) ]_vars

\* the streaming stage ran to its end without stop_notify or the session
\* close failing
CleanStreaming(t) ==
    /\ t.pc = "done"
    /\ t.stop_called
    /\ ~HasLine(t.result[1].info, "notification_error")
    /\ ~HasLine(t.result[1].info, "bleak_error")
    /\ ~HasLine(t.result[1].info, "error")

\* C3: if the budget elapses with an index of [0, total) missing, the report
\* has a status other than the finished one and its info states the exact
\* pair received_count/total
C3_BudgetElapsedReportsIncomplete ==
    \A w \in TwoRequests :
       LET t == task[w]
       IN  ( /\ CleanStreaming(t)
             /\ t.loop_exit = "budget"
             /\ t.total_frames # None
             /\ ~AllPresent(t.chunks, t.total_frames[1]) )
           => /\ t.result[1].status # FINISHED
              /\ \E i \in 1..Len(t.result[1].info) :
                    /\ t.result[1].info[i].k = "incomplete"
                    /\ t.result[1].info[i].v =
                          <<Cardinality(DOMAIN t.chunks), t.total_frames[1]>>

\* C4: when no characteristic with notify is resolved, the report carries
\* characteristic_resolve_failed_before_notify and nothing was subscribed
C4_UnresolvedReportsCapabilityNotFound ==
    \A w \in TwoRequests :
       LET t == task[w]
       IN  ( /\ t.pc = "done"
             /\ HasLine(t.result[1].info, "characteristic_not_found")
             /\ ~HasLine(t.result[1].info, "bleak_error")
             /\ ~HasLine(t.result[1].info, "error") )
           => /\ t.result[1].status = "characteristic_resolve_failed_before_notify"
              /\ t.result[1].status # FINISHED
              /\ ~t.started

\* C5: a run in which start_notify returned successfully has invoked
\* stop_notify before it returns its report
C5_StopNotifyBeforeReport ==
    \A w \in TwoRequests :
       ( task[w].result # None /\ task[w].started ) => task[w].stop_called

\* C6: when the caller has its Timeout answer for a workflow that had
\* subscribed, the cancelled workflow holds neither the session nor the
\* subscription
C6_TimeoutReleasesBeforeReturn ==
    \A w \in TwoRequests :
       ( http[w].response = Some("Timeout") /\ task[w].started )
       => ~task[w].session_open /\ ~task[w].notifying

\* a workflow is in progress on the BLE loop
InProgress(w) ==
    task[w].pc \in Awaiting

\* C7: at most one workflow is in progress on the BLE loop at any time
C7_SingleFlight == Cardinality({ w \in TwoRequests : InProgress(w) }) <= 1

\* C8: whatever stages fail, a workflow that is not cancelled ends by
\* returning one report, and no exception leaves the coroutine
C8_OneReportNoEscape ==
    \A w \in TwoRequests :
       /\ task[w].pc # "raised"
       /\ (task[w].pc = "done" <=> task[w].result # None)
       /\ (task[w].result # None =>
              DOMAIN task[w].result[1] = {"status", "info"})
       /\ (http[w].st = "done" =>
              \/ http[w].response = Some("Timeout")
              \/ ( /\ task[w].result # None
                   /\ http[w].response = Some(task[w].result[1].status) ))

\* C8 witness: stop_notify raised, then the session close raised, and the
\* report was still returned and served
C8_Witness ==
    /\ task[1].pc = "done"
    /\ HasLine(task[1].result[1].info, "notification_error")
    /\ HasLine(task[1].result[1].info, "error")
    /\ task[1].result[1].status = "general_error_during_connection"
    /\ http[1].response = Some("general_error_during_connection")

\* the frames seen so far are a complete, duplicate-free set for total n
CompleteSet(n) ==
    /\ n >= 1
    /\ Len(seen) = n
    /\ \A i \in 1..n : WellFormed(seen[i]) /\ DeclaredTotal(seen[i]) = n
    /\ \A k \in 0..(n - 1) : \E i \in 1..n : DeclaredSeq(seen[i]) = k

\* the payload of the frame with sequence index k among the frames seen
PayloadAt(k) ==
    DeclaredPayload(seen[CHOOSE i \in 1..Len(seen) : DeclaredSeq(seen[i]) = k])

RECURSIVE Ascending(_, _)
\* the payloads of indices k..n-1 in ascending order, concatenated
Ascending(k, n) == IF k >= n THEN <<>> ELSE PayloadAt(k) \o Ascending(k + 1, n)

\* C9: for a complete duplicate-free set with total n, in any arrival order,
\* the reassembled value is the payloads in ascending index order
C9_OrderIndependent ==
    \A n \in 1..MaxTotal :
       ( out # None /\ CompleteSet(n) )
       => LET expect == Ascending(0, n)
          IN  out[1] = IF Utf8Valid(expect)
                       THEN << Line("value", expect) >>
                       ELSE << Line("value_hex", HexOf(expect)) >>

\* C9 witness: seq 2, 0, 1 with payloads EF, AB, CD gave ABCDEF
C9_Witness ==
    /\ seen = << MkFrame(2, 3, 2, <<69, 70>>), MkFrame(0, 3, 2, <<65, 66>>),
                 MkFrame(1, 3, 2, <<67, 68>>) >>
    /\ out = Some(<< Line("value", <<65, 66, 67, 68, 69, 70>>) >>)

\* C10: a malformed frame changes neither the total nor the stored indices
\* nor any stored payload, in whatever state it arrives; a well-formed frame
\* that follows is still stored
C10_MalformedDropped ==
    [][ Delivered =>
          IF WellFormed(LastFrame)
          THEN /\ DeclaredSeq(LastFrame) \in DOMAIN reasm'.chunks
               /\ reasm'.chunks[DeclaredSeq(LastFrame)] = DeclaredPayload(LastFrame)
          ELSE reasm' = reasm ]_vars

\* C10 witness: a runt and an overlong frame were delivered, then a
\* well-formed frame was stored
C10_Witness ==
    /\ Len(seen) = 3
    /\ Len(seen[1]) < 6
    /\ Len(seen[2]) >= 6 /\ ~WellFormed(seen[2])
    /\ WellFormed(seen[3])
    /\ DOMAIN reasm.chunks = {DeclaredSeq(seen[3])}
    /\ reasm.total_frames = Some(DeclaredTotal(seen[3]))

\* the marker bytes stand in value from byte offset b on
AlignedAt(value, b) ==
    /\ b + Len(TARGET_TEXT) <= Len(value)
    /\ \A k \in 1..Len(TARGET_TEXT) : value[b + k] = TARGET_TEXT[k]

\* the marker stands in value half a byte further than byte offset b: each
\* marker byte is the low nibble of one byte and the high nibble of the next
StraddlingAt(value, b) ==
    /\ b + Len(TARGET_TEXT) + 1 <= Len(value)
    /\ \A k \in 1..Len(TARGET_TEXT) :
          /\ value[b + k] % 16 = TARGET_TEXT[k] \div 16
          /\ value[b + k + 1] \div 16 = TARGET_TEXT[k] % 16

AlignedIn(rec) ==
    \E j \in 1..Len(rec.manufacturer_data) :
       \E b \in 0..Len(rec.manufacturer_data[j][2]) :
          AlignedAt(rec.manufacturer_data[j][2], b)

StraddlingIn(rec) ==
    \E j \in 1..Len(rec.manufacturer_data) :
       \E b \in 0..Len(rec.manufacturer_data[j][2]) :
          StraddlingAt(rec.manufacturer_data[j][2], b)

\* the advertisement carries the marker as the filter tests it (app.py:97,
\* 119): the hex text of one of its values holds the hex text of the marker,
\* from a byte boundary on or from half a byte further
HasMarker(rec) == AlignedIn(rec) \/ StraddlingIn(rec)

\* record a ranks above record b: a present signal strength is above an
\* absent one, and above every smaller one
RanksAbove(a, b) ==
    /\ a.rssi # None
    /\ (b.rssi = None \/ a.rssi[1] > b.rssi[1])

\* C11: the record returned is a matching record of the batch that no
\* matching record ranks above, and that ranks above every matching record
\* observed before it; without a matching record nothing is returned
C11_StrongestFirstObserved ==
    res # None =>
       LET matching == { i \in 1..Len(inp) :
                            \E k \in 1..Len(res[1].matches) :
                               res[1].matches[k].address = inp[i].address }
       IN  IF matching = {} THEN res[1].selected = None
           ELSE /\ res[1].selected # None
                /\ \E i \in matching :
                      /\ res[1].selected[1].address = inp[i].address
                      /\ \A j \in matching : ~RanksAbove(inp[j], inp[i])
                      /\ \A j \in matching : j < i => RanksAbove(inp[i], inp[j])

\* the value the final join would report from a reassembler state, if any
ReassembledValue(r) ==
    SelectSeq(ReassemblyInfo(r.chunks, r.total_frames, TRUE),
              LAMBDA l : l.k \in {"value", "value_hex"})

\* C12: a well-formed frame whose index is already stored replaces the
\* payload of that index and touches no other index; when its payload is
\* the stored one, the value the final join reports is what it was
C12_DuplicateLastWriteWins ==
    [][ ( /\ Delivered
          /\ WellFormed(LastFrame)
          /\ DeclaredSeq(LastFrame) \in DOMAIN reasm.chunks )
        => /\ DOMAIN reasm'.chunks = DOMAIN reasm.chunks
           /\ reasm'.chunks[DeclaredSeq(LastFrame)] = DeclaredPayload(LastFrame)
           /\ \A i \in DOMAIN reasm.chunks \ {DeclaredSeq(LastFrame)} :
                 reasm'.chunks[i] = reasm.chunks[i]
           /\ ( DeclaredPayload(LastFrame) = reasm.chunks[DeclaredSeq(LastFrame)]
                => ReassembledValue(reasm') = ReassembledValue(reasm) ) ]_vars

\* the run returned the report of Bluetooth staying unavailable
ReportedOff(t) == t.result # None /\ t.result[1].status = "Bluetooth is OFF"

\* C13: off the platform that needs it no probe is made; on it, at most
\* total/step + 1 probes are made, the run leaves the probe loop as soon as
\* a probe succeeds, and Bluetooth is reported off only after total/step + 1
\* failed probes, without a scan having been made
C13_ProbeBounded ==
    \A w \in TwoRequests :
       LET t == task[w]
       IN  /\ t.probes <= PROBE_TOTAL \div PROBE_STEP + 1
           /\ (~MAC => /\ t.probes = 0
                       /\ t.pc \notin {"probe", "probe_sleep"}
                       /\ ~ReportedOff(t))
           /\ (t.pc = "probe" =>
                 t.probes = (PROBE_TOTAL - t.remaining) \div PROBE_STEP)
           /\ (t.pc = "probe_sleep" =>
                 /\ t.remaining > 0
                 /\ t.probes = (PROBE_TOTAL - t.remaining) \div PROBE_STEP + 1)
           /\ (t.probes > 0 => \/ t.pc \in {"probe", "probe_sleep"}
                               \/ ReportedOff(t)
                               \/ t.cancel)
           /\ (ReportedOff(t) =>
                 /\ t.probes = PROBE_TOTAL \div PROBE_STEP + 1
                 /\ t.observed = None
                 /\ t.target = None
                 /\ ~t.session_open)

\* C13 witness: sixteen probes failed and the report says Bluetooth is off
C13_Witness ==
    /\ MAC
    /\ task[1].pc = "done"
    /\ ReportedOff(task[1])
    /\ task[1].probes = 16

\* C14: a run whose service discovery raised reports a status that is
\* neither the finished one nor the one of an unresolved characteristic
C14_DiscoveryFailureIsTransportError ==
    \A w \in TwoRequests :
       LET t == task[w]
       IN  ( /\ t.pc = "done"
             /\ HasLine(t.result[1].info, "discovery_error") )
           => /\ t.result[1].status # FINISHED
              /\ t.result[1].status # "characteristic_resolve_failed_before_notify"

\* the advertisements of the scan window that carry the marker
Marked(t) == { i \in 1..Len(t.observed[1]) : HasMarker(t.observed[1][i]) }

\* C15: when no advertisement of the scan window carries the marker the run
\* ends with the no-match status and never reaches the connection; a session
\* is attempted or open only with a target the filter selected among the
\* marked advertisements, and to the address of that target
C15_NoMatchNeverConnects ==
    \A w \in TwoRequests :
       LET t == task[w]
       IN  /\ ( t.observed # None /\ Marked(t) = {} )
              => /\ t.pc = "done"
                 /\ t.result[1] = Report("No BLE package found", <<>>)
                 /\ t.target = None
                 /\ ~t.session_open
           /\ ( t.pc = "connect" \/ t.session_open \/ HasLine(t.info, "connected") )
              => /\ t.observed # None
                 /\ t.target = _scan_with_manufacturer_filter(t.observed[1])
                 /\ \E i \in Marked(t) :
                       t.observed[1][i].address = t.target[1].address
                 /\ \A i \in 1..Len(t.info) :
                       t.info[i].k = "connected"
                       => t.info[i].v = t.target[1].address

\* C15 witness: one run saw only an unmarked advertisement and returned the
\* no-match report
C15_Witness ==
    /\ task[1].pc = "done"
    /\ task[1].observed # None
    /\ Len(task[1].observed[1]) = 1
    /\ Marked(task[1]) = {}
    /\ task[1].result[1].status = "No BLE package found"

\* the run has returned, with a target selected and no session established
ConnectFailed(t) ==
    /\ t.pc = "done"
    /\ t.target # None
    /\ ~HasLine(t.result[1].info, "connected")

\* C16: a run whose connection was not established (the connect raised, or
\* returned without a link) reports a connect-failure status, never the
\* finished one, has neither discovered services nor subscribed, and its
\* info holds the address of the target
C16_ConnectFailureReported ==
    \A w \in TwoRequests :
       LET t == task[w]
       IN  ConnectFailed(t)
           => /\ t.result[1].status \in
                    { "bleak_error_during_connection",
                      "general_error_during_connection",
                      "Failed to connect to " \o t.target[1].address }
              /\ t.result[1].status # FINISHED
              /\ ~HasLine(t.result[1].info, "discovering_services")
              /\ t.target_characteristic_obj = None
              /\ ~t.started /\ ~t.notifying /\ ~t.stop_called
              /\ \E i \in 1..Len(t.result[1].info) :
                    /\ t.result[1].info[i].k = "device_address"
                    /\ t.result[1].info[i].v = t.target[1].address

\* C16 witness: the client came back not connected and the report names the
\* address it failed to connect to
C16_Witness ==
    /\ ConnectFailed(task[1])
    /\ task[1].target[1].address = "CC"
    /\ task[1].result[1].status = "Failed to connect to CC"

\* two identifiers are the same text up to the case of their letters
SameIgnoringCase(a, b) == Upper(a) = Upper(b)

\* the positions <<service, characteristic>> of a tree that hold a
\* characteristic of the target identifier with notify, inside a service of
\* the target identifier
Eligible(tree) ==
    { p \in (1..Len(tree)) \X (1..2) :
         /\ p[2] <= Len(tree[p[1]].characteristics)
         /\ SameIgnoringCase(tree[p[1]].uuid, SERVICE_UUID)
         /\ SameIgnoringCase(tree[p[1]].characteristics[p[2]].uuid, CHAR_UUID)
         /\ "notify" \in tree[p[1]].characteristics[p[2]].properties }

\* position p comes before position q in the enumeration
Before(p, q) == p[1] < q[1] \/ (p[1] = q[1] /\ p[2] < q[2])

\* C17: the resolution returns the eligible characteristic that comes first
\* in the enumeration order of services and of characteristics inside a
\* service, whatever non-notify characteristics of the target identifier
\* precede it, and returns nothing when no characteristic is eligible
C17_FirstEligibleResolved ==
    res # None =>
       IF Eligible(inp) = {} THEN res[1].obj = None
       ELSE \E p \in Eligible(inp) :
               /\ \A q \in Eligible(inp) : q = p \/ Before(p, q)
               /\ res[1].obj = Some(inp[p[1]].characteristics[p[2]])

\* C17 witness: a first service of the target identifier holds only a
\* characteristic of the target identifier without notify; the second holds
\* one without notify and then one with notify, written in upper case, which
\* is the one resolved
C17_Witness ==
    /\ res # None
    /\ Len(inp) = 2
    /\ inp[1].uuid = SERVICE_UUID
    /\ inp[1].characteristics = << Chr(CHAR_UUID, 11, {"read", "write"}) >>
    /\ inp[2].uuid = Upper(SERVICE_UUID)
    /\ inp[2].characteristics = << Chr(CHAR_UUID, 21, {"read", "write"}),
                                   Chr(Upper(CHAR_UUID), 22, {"read", "notify"}) >>
    /\ res[1].obj = Some(Chr(Upper(CHAR_UUID), 22, {"read", "notify"}))

\* C18: while the wait loop sleeps fewer than budget/step polls have been
\* made, so the loop is left at the latest by poll number budget/step; a
\* run that stopped the notifications without a well-formed frame ever
\* stored left the loop on the budget and reports that no frame was
\* received, without a value
C18_WaitBoundedNoFrames ==
    \A w \in TwoRequests :
       LET t == task[w]
       IN  /\ t.waited % NOTIFY_POLL_STEP_S = 0
           /\ t.waited \div NOTIFY_POLL_STEP_S <=
                 NOTIFY_WAIT_TOTAL_S \div NOTIFY_POLL_STEP_S
           /\ ( t.pc = "sleeping" =>
                  t.waited \div NOTIFY_POLL_STEP_S <
                     NOTIFY_WAIT_TOTAL_S \div NOTIFY_POLL_STEP_S )
           /\ ( CleanStreaming(t) /\ t.total_frames = None )
              => /\ t.loop_exit = "budget"
                 /\ HasLine(t.result[1].info, "no_frames")
                 /\ ~HasLine(t.result[1].info, "value")
                 /\ ~HasLine(t.result[1].info, "value_hex")

\* C18 witness: the budget ran out with nothing stored and the report says
\* no frame was received
C18_Witness ==
    /\ CleanStreaming(task[1])
    /\ task[1].total_frames = None
    /\ task[1].loop_exit = "budget"
    /\ HasLine(task[1].result[1].info, "no_frames")

RECURSIVE ChunksUpTo(_, _)
\* chunks[0] .. chunks[n-1], concatenated
ChunksUpTo(chunks, n) ==
    IF n = 0 THEN <<>> ELSE ChunksUpTo(chunks, n - 1) \o chunks[n - 1]

\* C19: the final join reports a value only when every index below the
\* total in force is stored, and the value is then chunks[0..N-1] in
\* ascending order; with an index missing it reports the incomplete count or
\* the first missing frame, and no value
C19_ValueOnlyWhenAllPresent ==
    out # None =>
       LET N == reasm.total_frames
           valued == HasLine(out[1], "value") \/ HasLine(out[1], "value_hex")
       IN  /\ valued =>
                /\ N # None
                /\ AllPresent(reasm.chunks, N[1])
                /\ LET expect == ChunksUpTo(reasm.chunks, N[1])
                   IN  out[1] = IF Utf8Valid(expect)
                                THEN << Line("value", expect) >>
                                ELSE << Line("value_hex", HexOf(expect)) >>
           /\ ( N # None /\ ~AllPresent(reasm.chunks, N[1]) ) =>
                /\ ~valued
                /\ \/ HasLine(out[1], "incomplete")
                   \/ \E i \in 1..Len(out[1]) :
                         /\ out[1][i].k = "missing_frame"
                         /\ out[1][i].v[1] \in 0..(N[1] - 1)
                         /\ out[1][i].v[1] \notin DOMAIN reasm.chunks
                         /\ \A k \in 0..(out[1][i].v[1] - 1) :
                               k \in DOMAIN reasm.chunks

\* C19 witness: as many indices as the total are stored but index 1 is not,
\* and the join reports the missing frame
C19_Witness ==
    /\ out # None
    /\ reasm.total_frames = Some(2)
    /\ DOMAIN reasm.chunks = {0, 2}
    /\ out[1] = << Line("missing_frame", Some(1)),
                 Line("not_reassembled", <<>>) >>

\* C20: a run that left the wait loop with every index below the total
\* stored and then stopped the notifications reports the value of the chunks
\* and total as they were when the loop was left, whatever frames were
\* handled between the exit of the loop and the return of stop_notify
C20_LateFramesChangeNothing ==
    \A w \in TwoRequests :
       LET t == task[w]
       IN  ( /\ CleanStreaming(t)
             /\ t.loop_exit = "complete"
             /\ t.at_exit # None
             /\ t.at_exit[1].total_frames # None
             /\ AllPresent(t.at_exit[1].chunks, t.at_exit[1].total_frames[1]) )
           => LET expect == ChunksUpTo(t.at_exit[1].chunks,
                                       t.at_exit[1].total_frames[1])
                  line == IF Utf8Valid(expect) THEN Line("value", expect)
                          ELSE Line("value_hex", HexOf(expect))
              IN  /\ t.result[1].info[Len(t.result[1].info)] = line
                  /\ t.chunks = t.at_exit[1].chunks
                  /\ t.total_frames = t.at_exit[1].total_frames

\* the record of the batch a match was built from
SourceOf(m) == CHOOSE i \in 1..Len(inp) : inp[i].address = m.address

\* C21, as stated: every record classified as a match has a value whose
\* bytes hold the six marker bytes contiguously and byte-aligned
C21_MatchesAreByteAligned ==
    res # None =>
       \A k \in 1..Len(res[1].matches) :
          AlignedIn(inp[SourceOf(res[1].matches[k])])

\* C21, amended: the records classified as matches are exactly those with a
\* value that holds the marker either byte-aligned or half a byte off, that
\* is, at any offset of its hexadecimal text, odd ones included
C21_MatchesAtAnyNibbleOffset ==
    res # None =>
       /\ \A k \in 1..Len(res[1].matches) :
             \E i \in 1..Len(inp) : inp[i].address = res[1].matches[k].address
       /\ \A i \in 1..Len(inp) :
             ( \E k \in 1..Len(res[1].matches) :
                  res[1].matches[k].address = inp[i].address )
             <=> ( AlignedIn(inp[i]) \/ StraddlingIn(inp[i]) )

\* C21 witness: a value holding the marker only half a byte off was
\* classified as a match and selected, ahead of nothing else
C21_Witness ==
    /\ res # None
    /\ Len(inp) = 2
    /\ ~AlignedIn(inp[1]) /\ StraddlingIn(inp[1])
    /\ ~AlignedIn(inp[2]) /\ ~StraddlingIn(inp[2])
    /\ Len(res[1].matches) = 1
    /\ res[1].selected # None
    /\ res[1].selected[1].address = inp[1].address

\* C22: the caller is answered Timeout only in a run in which some stage
\* took longer than the code allows it. Every await with a budget ends
\* within its budget (the discover of a probe, the sleeps, the scan, the
\* entry of the session, the polls up to the wait budget), so the answer is
\* Timeout only after a wait without a budget has taken time
C22_ReportBeforeCallerTimeout ==
    res.answer = Some("Timeout") => res.late
====
